---- MODULE Spec2Model ----
(***************************************************************************)
(* Model of the news-sentiment analysis toolkit:                           *)
(*   - StockAnalyzer.analyze_sentiment_impact (the lag sweep),             *)
(*   - StockAnalyzer.calculate_correlation and get_stock_data,             *)
(*   - SentimentAnalyzer.analyze_headlines (date handling),                *)
(*   - market_analysis.analyze_publishers / analyze_stocks.                *)
(*                                                                         *)
(* Conventions.  A timestamp is an integer number of hours since an epoch  *)
(* (wall clock of its own time zone); a DatetimeIndex carries one time     *)
(* zone for all its entries ("naive" = no time zone).  A float is NaN or   *)
(* a defined number: NaN is the empty tuple, a defined number v is <<v>>.  *)
(* Defined sentiment scores and returns are small integers (scaled).       *)
(***************************************************************************)
EXTENDS Integers, Sequences, FiniteSets, TLC

(* ------------------------------ bounds --------------------------------- *)
\* calendar days 1..MaxDay
MaxDay == 3
\* integer lags 0..MaxLag
MaxLag == 2
\* length of the list of lags in the sweep
MaxLags == 2
\* rows of the table given to the market analysis
MaxRows == 3

VARIABLES
    pc,             \* position of the modelled call
    sentiment_data, \* analyze_sentiment_impact / calculate_correlation argument
    stock_data,     \* analyze_sentiment_impact / calculate_correlation argument
    lags,           \* analyze_sentiment_impact argument
    results,        \* the list `results` of analyze_sentiment_impact
    merged_log,     \* per processed lag: merged_data after dropna (or the failure mark)
    outcome,        \* how the call ended
    origin,         \* where the two frames came from
    corr,           \* calculate_correlation: what was evaluated and returned
    df,             \* the table given to analyze_publishers / analyze_stocks
    stats,          \* the dictionaries returned by the market analysis so far
    caller_frame    \* the caller's sentiment frame, which the copy of line 131 leaves as it was

vars == <<pc, sentiment_data, stock_data, lags, results, merged_log, outcome,
          origin, corr, df, stats, caller_frame>>

(* ------------------------------ floats --------------------------------- *)
NaN == <<>>

Num(v) == <<v>>

IsNaN(x) == x = NaN

Val(x) == x[1]

(* --------------------------- sequence helpers -------------------------- *)
Range(s) == {s[k] : k \in 1..Len(s)}

Count(s, x) == Cardinality({k \in 1..Len(s) : s[k] = x})

HasDup(s) == \E j, k \in 1..Len(s) : j < k /\ s[j] = s[k]

SetMin(S) == CHOOSE m \in S : \A x \in S : m <= x

Repeat(x, n) == [k \in 1..n |-> x]

RECURSIVE SeqSum(_)
SeqSum(s) == IF s = <<>> THEN 0 ELSE Head(s) + SeqSum(Tail(s))

(* --------------------------- timestamps -------------------------------- *)
\* Timestamp.normalize(): midnight of the same wall-clock day, time zone kept.
NormalizeTs(t) == t - (t % 24)

DayOf(t) == t \div 24

(* ------------------- pandas pieces used by the sweep ------------------- *)
\* pd.to_datetime(index): raises when an entry cannot be parsed.
ToDatetimeOk(rows) == \A k \in 1..Len(rows) : rows[k].ok

\* DatetimeIndex.normalize(): every entry truncated to midnight.
NormalizeIndex(rows) == [k \in 1..Len(rows) |-> [rows[k] EXCEPT !.t = NormalizeTs(@)]]

IndexOf(rows) == [k \in 1..Len(rows) |-> rows[k].t]

\* Series.shift(lag): position k takes the value found lag positions earlier.
ShiftForward(vals, lag) ==
    [k \in 1..Len(vals) |-> IF k - lag \in 1..Len(vals) THEN vals[k - lag] ELSE NaN]

\* Series.shift(-lag): position k takes the value found lag positions later.
ShiftBack(vals, lag) ==
    [k \in 1..Len(vals) |-> IF k + lag \in 1..Len(vals) THEN vals[k + lag] ELSE NaN]

\* The sorted union of two indexes, a label kept as often as the index that
\* holds it most often.
RECURSIVE SortedUnion(_, _, _)
SortedUnion(S, a, b) ==
    IF S = {} THEN <<>>
    ELSE LET m == SetMin(S)
             ca == Count(a, m)
             cb == Count(b, m)
         IN  Repeat(m, IF ca >= cb THEN ca ELSE cb) \o SortedUnion(S \ {m}, a, b)

\* Index.union(other, sort=None), as the DataFrame constructor calls it on the
\* indexes of the Series of a dict: no sort when the two are equal or one is empty.
UnionIndex(a, b) ==
    IF Len(b) = 0 \/ a = b THEN a
    ELSE IF Len(a) = 0 THEN b
    ELSE SortedUnion(Range(a) \cup Range(b), a, b)

\* Series.reindex(target) raises on a source index with duplicate labels,
\* unless the target equals the source index.
ReindexRaises(index, target) == HasDup(index) /\ index # target

\* Series.reindex(target): positional when target equals the index, else the
\* value at the label, NaN where the label is absent.
Reindex(index, vals, target) ==
    IF index = target THEN vals
    ELSE [k \in 1..Len(target) |->
            IF \E j \in 1..Len(index) : index[j] = target[k]
            THEN vals[CHOOSE j \in 1..Len(index) : index[j] = target[k]]
            ELSE NaN]

\* dropna(subset=['sentiment']): only the first column is looked at
HasNoNaNSentiment(row) == ~IsNaN(row.sentiment)

\* DataFrame.dropna(): rows with a NaN in any column go.
HasNoNaN(row) == ~IsNaN(row.sentiment) /\ ~IsNaN(row.returns)

DropNa(rows) == SelectSeq(rows, HasNoNaN)

(* --------------------------- scipy pearsonr ---------------------------- *)
HasNaN(xs) == \E k \in 1..Len(xs) : IsNaN(xs[k])

\* (x == x[0]).all(): every value equals the first; NaN equals nothing
IsConstant(xs) == ~HasNaN(xs) /\ \A k \in 1..Len(xs) : xs[k] = xs[1]

Products(xs, ys) == [k \in 1..Len(xs) |-> xs[k] * ys[k]]

\* n * Sum(x y) - Sum(x) Sum(y): n^2 times the covariance.
CoMoment(xs, ys) == Len(xs) * SeqSum(Products(xs, ys)) - SeqSum(xs) * SeqSum(ys)

Sign(z) == IF z > 0 THEN 1 ELSE IF z < 0 THEN -1 ELSE 0

\* The coefficient r of two non-constant sequences, kept exact as its sign
\* and the fraction r^2 = num / den.
Coefficient(xs, ys) ==
    [sgn |-> Sign(CoMoment(xs, ys)),
     num |-> CoMoment(xs, ys) * CoMoment(xs, ys),
     den |-> CoMoment(xs, xs) * CoMoment(ys, ys)]

\* a pearsonr that raises on a constant input instead of warning
PearsonrRaisesOnConstant(xs, ys) == Len(xs) < 2 \/ IsConstant(xs) \/ IsConstant(ys)

\* pearsonr(x, y) raises ValueError on fewer than 2 points, and on nothing else
\* the sweep can hand it.
PearsonrRaises(xs, ys) == Len(xs) < 2

Values(xs) == [k \in 1..Len(xs) |-> Val(xs[k])]

\* the p-value of a coefficient: a function of r^2 = num / den and of n
PValue(num, den, n) == [num |-> num, den |-> den, n |-> n]

\* pearsonr(x, y) on sequences of length >= 2.  Constant x or y: (NaN, NaN),
\* with a warning and no exception.  A NaN among the values makes r NaN; the
\* p-value is then NaN too, except for n = 2, where pearsonr returns its fixed
\* p-value 1.0 without looking at r.  Otherwise r and its two-sided p-value.
Pearsonr(xs, ys) ==
    IF IsConstant(xs) \/ IsConstant(ys)
    THEN [r |-> NaN, p |-> NaN]
    ELSE IF HasNaN(xs) \/ HasNaN(ys)
    THEN [r |-> NaN, p |-> IF Len(xs) = 2 THEN Num(PValue(0, 1, 2)) ELSE NaN]
    ELSE [r |-> Num(Coefficient(Values(xs), Values(ys))),
          p |-> Num(PValue(Coefficient(Values(xs), Values(ys)).num,
                           Coefficient(Values(xs), Values(ys)).den,
                           Len(xs)))]

(* ------------------- analyze_sentiment_impact: set-up ------------------ *)
\* The MultiIndex branch: with a level named 'stock' the frame is cut down to
\* the first symbol of that level; otherwise level 0 becomes a column.
FirstSymbolRaises(sd) == sd.index = "stock" /\ Len(sd.rows) = 0

\* a filter on the symbol of the last row
IsLastSymbol(sd, row) == row.sym = sd.rows[Len(sd.rows)].sym

\* get_level_values('stock').unique()[0], then xs(stock_symbol, level='stock')
IsFirstSymbol(sd, row) == row.sym = sd.rows[1].sym

FilterCurrentStock(sd) ==
    IF sd.index = "stock"
    THEN LET Keep(row) == IsFirstSymbol(sd, row)
         IN  [sd EXCEPT !.index = "flat", !.rows = SelectSeq(sd.rows, Keep)]
    ELSE IF sd.index \in {"other_date", "other_nodate"}
    THEN [sd EXCEPT !.index = "flat",
                    !.rows = [k \in 1..Len(sd.rows) |->
                                [sd.rows[k] EXCEPT !.ok = @ /\ sd.index = "other_date"]]]
    ELSE sd

\* Lines 120-149 raise (and the outer handler takes over) in these cases.
SetupRaises(stk, sd) ==
    \/ stk.none
    \/ ~ToDatetimeOk(stk.rows)
    \/ FirstSymbolRaises(sd)
    \/ ~ToDatetimeOk(FilterCurrentStock(sd).rows)

PreparedStock(stk) == [stk EXCEPT !.rows = NormalizeIndex(stk.rows)]

PreparedSentiment(sd) ==
    [FilterCurrentStock(sd) EXCEPT !.rows = NormalizeIndex(FilterCurrentStock(sd).rows)]

(* ------------------ analyze_sentiment_impact: one lag ------------------ *)
\* a failure row whose placeholder count is -1
FailureRowMinusOne(lag) == [lag |-> lag, correlation |-> NaN, p_value |-> NaN, n_obs |-> -1]

FailureRow(lag) == [lag |-> lag, correlation |-> NaN, p_value |-> NaN, n_obs |-> 0]

lagged_returns(stk, lag) == ShiftBack([k \in 1..Len(stk.rows) |-> stk.rows[k].ret], lag)

\* pd.DataFrame({'sentiment': ..., 'returns': ...}).dropna()
merged_data(stk, sd, lag) ==
    LET si == IndexOf(sd.rows)
        ri == IndexOf(stk.rows)
        u  == UnionIndex(si, ri)
        s  == Reindex(si, [k \in 1..Len(sd.rows) |-> sd.rows[k].val], u)
        r  == Reindex(ri, lagged_returns(stk, lag), u)
    IN  DropNa([k \in 1..Len(u) |-> [t |-> u[k], sentiment |-> s[k], returns |-> r[k]]])

Column(rows, c) == [k \in 1..Len(rows) |-> rows[k][c]]

\* What makes the body of the per-lag try raise.
LagRaises(stk, sd, lag) ==
    \/ ~stk.has_returns                     \* stock_data['Returns']: KeyError
    \/ ~lag.int                             \* -lag on a non-number: TypeError
    \/ ~sd.has_column                       \* sentiment_data[sentiment_column]
    \/ stk.tz # sd.tz                       \* tz-naive joined with tz-aware
    \/ ReindexRaises(IndexOf(sd.rows),
                     UnionIndex(IndexOf(sd.rows), IndexOf(stk.rows)))
    \/ ReindexRaises(IndexOf(stk.rows),
                     UnionIndex(IndexOf(sd.rows), IndexOf(stk.rows)))
    \/ /\ Len(merged_data(stk, sd, lag.v)) >= 2
       /\ PearsonrRaises(Column(merged_data(stk, sd, lag.v), "sentiment"),
                         Column(merged_data(stk, sd, lag.v), "returns"))

ResultRow(lag, merged) ==
    IF Len(merged) >= 2
    THEN [lag |-> lag,
          correlation |-> Pearsonr(Column(merged, "sentiment"), Column(merged, "returns")).r,
          p_value |-> Pearsonr(Column(merged, "sentiment"), Column(merged, "returns")).p,
          n_obs |-> Len(merged)]
    ELSE [lag |-> lag, correlation |-> NaN, p_value |-> NaN, n_obs |-> Len(merged)]

(* ------------------------------- inputs -------------------------------- *)
Days == 1..MaxDay

At(d, h) == 24 * d + h

\* the members of a set of integers, ascending
RECURSIVE Ascending(_)
Ascending(S) == IF S = {} THEN <<>> ELSE <<SetMin(S)>> \o Ascending(S \ {SetMin(S)})

Reverse(s) == [k \in 1..Len(s) |-> s[Len(s) + 1 - k]]

Ordered(rows, order) == IF order = "desc" THEN Reverse(rows) ELSE rows

SentimentRow(t, v) == [t |-> t, ok |-> TRUE, val |-> v, sym |-> "AAPL"]

StockRow(t, v) == [t |-> t, ok |-> TRUE, ret |-> v]

SentimentFrame(tz, rows) ==
    [none |-> FALSE, tz |-> tz, index |-> "flat", has_column |-> TRUE, rows |-> rows]

StockFrame(tz, rows) ==
    [none |-> FALSE, tz |-> tz, has_returns |-> TRUE, rows |-> rows]

Scores == {NaN, Num(1), Num(2)}

\* the return of a trading day when it is defined: 1, 4, 9, ... (scaled)
ReturnOn(d) == Num(d * d)

ReturnStates == {"nan", "defined"}

\* one article on each day of S, published at hour h, with the scores f
SentimentSeries(S, f, h) ==
    [k \in 1..Cardinality(S) |-> SentimentRow(At(Ascending(S)[k], h), f[Ascending(S)[k]])]

\* one daily bar on each trading day of S, stamped at midnight
StockSeries(S, g) ==
    [k \in 1..Cardinality(S) |->
        StockRow(At(Ascending(S)[k], 0),
                 IF g[Ascending(S)[k]] = "nan" THEN NaN ELSE ReturnOn(Ascending(S)[k]))]

IntLag(n) == [int |-> TRUE, v |-> n]

\* a list entry that is no number (None, a string)
BadLag == [int |-> FALSE, v |-> 0]

LagEntries == {IntLag(n) : n \in 0..MaxLag} \cup {BadLag}

NoFrame == [none |-> TRUE, tz |-> "naive", has_returns |-> FALSE, rows |-> <<>>]

Idle == [state |-> "idle"]

NoTable == <<>>

(* ---------------------- analyze_sentiment_impact ----------------------- *)
\* lines 118-149, no exception: both frames copied, MultiIndex reduced,
\* indexes parsed and normalized
Setup ==
    /\ pc = "setup"
    /\ ~SetupRaises(stock_data, sentiment_data)
    /\ stock_data' = PreparedStock(stock_data)
    /\ sentiment_data' = PreparedSentiment(sentiment_data)
    /\ pc' = IF Len(lags) = 0 THEN "return" ELSE "loop"
    /\ UNCHANGED <<caller_frame, lags, results, merged_log, outcome, origin, corr, df, stats>>

\* an outer handler that leaves the list empty
OuterHandlerEmpty == <<>>

\* lines 199-204: the list the outer handler builds
OuterHandlerRows == [k \in 1..Len(lags) |-> FailureRow(lags[k])]

\* lines 197-204: the outer handler replaces results by one failure row per lag
SetupFailed ==
    /\ pc = "setup"
    /\ SetupRaises(stock_data, sentiment_data)
    /\ results' = OuterHandlerRows
    /\ pc' = "return"
    /\ UNCHANGED <<caller_frame, sentiment_data, stock_data, lags, merged_log, outcome, origin,
                   corr, df, stats>>

NextLag == lags[Len(results) + 1]

\* a loop left after its first iteration
AfterLagBreak == "return"

\* line 151: the loop goes on to the next lag, or ends after the last
AfterLag == IF Len(results) + 1 = Len(lags) THEN "return" ELSE "loop"

\* lines 151-186: one iteration of the loop that raises nothing
LagStep ==
    /\ pc = "loop"
    /\ ~LagRaises(stock_data, sentiment_data, NextLag)
    /\ LET merged == merged_data(stock_data, sentiment_data, NextLag.v)
       IN  /\ results' = Append(results, ResultRow(NextLag, merged))
           /\ merged_log' = Append(merged_log, [failed |-> FALSE, rows |-> merged])
    /\ pc' = AfterLag
    /\ UNCHANGED <<caller_frame, sentiment_data, stock_data, lags, outcome, origin, corr, df, stats>>

\* a per-lag handler that leaves the loop
PerLagHandlerAborts == "return"

\* lines 188-195 end the iteration only: the loop goes on
PerLagHandlerNext == AfterLag

\* lines 188-195: the per-lag handler
LagFailed ==
    /\ pc = "loop"
    /\ LagRaises(stock_data, sentiment_data, NextLag)
    /\ results' = Append(results, FailureRow(NextLag))
    /\ merged_log' = Append(merged_log, [failed |-> TRUE, rows |-> <<>>])
    /\ pc' = PerLagHandlerNext
    /\ UNCHANGED <<caller_frame, sentiment_data, stock_data, lags, outcome, origin, corr, df, stats>>

\* line 206
Return ==
    /\ pc = "return"
    /\ outcome' = "returned"
    /\ pc' = "done"
    /\ UNCHANGED <<caller_frame, sentiment_data, stock_data, lags, results, merged_log, origin,
                   corr, df, stats>>

Sweep == Setup \/ SetupFailed \/ LagStep \/ LagFailed \/ Return

SweepStart(sd, stk, ls, from) ==
    /\ pc = "setup"
    /\ sentiment_data = sd
    /\ caller_frame = sd
    /\ stock_data = stk
    /\ lags = ls
    /\ origin = from
    /\ results = <<>>
    /\ merged_log = <<>>
    /\ outcome = "running"
    /\ corr = Idle
    /\ df = NoTable
    /\ stats = <<>>

(* ------------------- the producers of the two frames ------------------- *)
\* analyze_headlines, lines 61-64: the date is parsed as an instant (utc=True),
\* converted to New York wall-clock time (UTC-5) and stripped of its time zone.
HeadlineDate(utc) == [t |-> utc - 5, tz |-> "naive"]

\* the frame of analyze_headlines with its date column as the index
analyze_headlines(articles) ==
    SentimentFrame(HeadlineDate(0).tz,
                   [k \in 1..Len(articles) |->
                       SentimentRow(HeadlineDate(articles[k].utc).t, Num(articles[k].score))])

\* Series.pct_change() of the closes, kept in quarters: NaN for the first bar
PctChange(closes) ==
    [k \in 1..Len(closes) |->
        IF k = 1 THEN NaN
        ELSE Num((4 * (closes[k] - closes[k - 1])) \div closes[k - 1])]

\* get_stock_data: None when the download raises; else the daily bars with the
\* index converted to America/New_York (still time-zone aware) and Returns added
get_stock_data(download) ==
    IF download.fails THEN NoFrame
    ELSE StockFrame("NY",
                    [k \in 1..Len(download.bars) |->
                        StockRow(At(download.bars[k].day, 0),
                                 PctChange([j \in 1..Len(download.bars) |->
                                               download.bars[j].close])[k])])

\* articles: at most one per day, early (03:00 UTC) or late (15:00 UTC)
ArticleKinds == {[h |-> 3, score |-> 1], [h |-> 15, score |-> 2]}

Articles(S, f) ==
    [k \in 1..Cardinality(S) |->
        [utc |-> At(Ascending(S)[k], f[Ascending(S)[k]].h),
         score |-> f[Ascending(S)[k]].score]]

Closes == {1, 2}

FailedDownload == [fails |-> TRUE, bars |-> <<>>]

\* the closes c of the trading days S
Download(S, c) ==
    [fails |-> FALSE,
     bars |-> [k \in 1..Cardinality(S) |-> [day |-> Ascending(S)[k], close |-> c[Ascending(S)[k]]]]]

(* ------------------------------ fixtures ------------------------------- *)
SentimentRows(times, vals) == [k \in 1..Len(times) |-> SentimentRow(times[k], vals[k])]

StockRows(times, vals) == [k \in 1..Len(times) |-> StockRow(times[k], vals[k])]

FourDays == <<At(1, 0), At(2, 0), At(3, 0), At(4, 0)>>

ThreeDays == <<At(1, 0), At(2, 0), At(3, 0)>>

\* sentiment 0.5, -0.2, 0.8, 0.1 against returns 0.01, 0.02, -0.01, 0.03
FourDayFixture ==
    [sd  |-> SentimentFrame("naive", SentimentRows(FourDays, <<Num(5), Num(-2), Num(8), Num(1)>>)),
     stk |-> StockFrame("naive", StockRows(FourDays, <<Num(1), Num(2), Num(-1), Num(3)>>))]

\* constant sentiment 1.0, 1.0, 1.0 against varying returns
ConstantFixture ==
    [sd  |-> SentimentFrame("naive", SentimentRows(ThreeDays, <<Num(10), Num(10), Num(10)>>)),
     stk |-> StockFrame("naive", StockRows(ThreeDays, <<Num(1), Num(2), Num(-1)>>))]

\* no day in common
DisjointFixture ==
    [sd  |-> SentimentFrame("naive", SentimentRows(<<At(1, 9), At(2, 9)>>, <<Num(5), Num(-2)>>)),
     stk |-> StockFrame("naive", StockRows(<<At(3, 0), At(4, 0)>>, <<Num(1), Num(2)>>))]

\* get_stock_data returned None
NoStockFixture == [sd |-> FourDayFixture.sd, stk |-> NoFrame]

\* an index entry that pd.to_datetime cannot parse
BadDateFixture ==
    [sd  |-> [FourDayFixture.sd EXCEPT !.rows[2].ok = FALSE],
     stk |-> FourDayFixture.stk]

\* the frame has no column named sentiment_column
NoColumnFixture ==
    [sd  |-> [FourDayFixture.sd EXCEPT !.has_column = FALSE],
     stk |-> FourDayFixture.stk]

\* the frame has no column 'Returns'
NoReturnsFixture ==
    [sd  |-> FourDayFixture.sd,
     stk |-> [FourDayFixture.stk EXCEPT !.has_returns = FALSE]]

\* two articles on day 1: the normalized index has a duplicate label
DuplicateFixture ==
    [sd  |-> SentimentFrame("naive", SentimentRows(<<At(1, 9), At(1, 15), At(2, 10)>>,
                                          <<Num(5), Num(-2), Num(8)>>)),
     stk |-> ConstantFixture.stk]

\* articles in file order, not in date order
UnsortedFixture ==
    [sd  |-> SentimentFrame("naive", SentimentRows(<<At(3, 9), At(1, 9), At(2, 9)>>,
                                          <<Num(5), Num(-2), Num(8)>>)),
     stk |-> ConstantFixture.stk]

\* a (stock, date) MultiIndex holding two symbols
MultiIndexFixture ==
    [sd  |-> [SentimentFrame("naive",
                 <<[SentimentRow(At(1, 9), Num(5)) EXCEPT !.sym = "MSFT"],
                   SentimentRow(At(1, 9), Num(8)),
                   [SentimentRow(At(2, 9), Num(-2)) EXCEPT !.sym = "MSFT"],
                   SentimentRow(At(2, 9), Num(1)),
                   [SentimentRow(At(3, 9), Num(8)) EXCEPT !.sym = "MSFT"]>>)
               EXCEPT !.index = "stock"],
     stk |-> ConstantFixture.stk]

\* a MultiIndex without a level named 'stock', the date as level 1 or as level 0
OtherIndexFixture(kind) ==
    [sd  |-> [FourDayFixture.sd EXCEPT !.index = kind],
     stk |-> FourDayFixture.stk]

EmptyFixture ==
    [sd |-> SentimentFrame("naive", <<>>), stk |-> StockFrame("naive", <<>>)]

Fixtures ==
    {FourDayFixture, ConstantFixture, DisjointFixture, NoStockFixture, BadDateFixture,
     NoColumnFixture, NoReturnsFixture, DuplicateFixture, UnsortedFixture,
     MultiIndexFixture, OtherIndexFixture("other_date"),
     OtherIndexFixture("other_nodate"), EmptyFixture}

(* --------------------------- specifications ---------------------------- *)
\* the fixtures under every list of lags
InitFixtures ==
    \E f \in Fixtures, n \in 0..MaxLags :
        \E ls \in [1..n -> LagEntries] : SweepStart(f.sd, f.stk, ls, "caller")

\* every integer lag once, in ascending order
AllLags == [k \in 1..MaxLag + 1 |-> IntLag(k - 1)]

\* every pair of series in date order, and every pair of reversed series whose
\* returns are all defined, under every lag
InitSeries ==
    \E S \in SUBSET Days, T \in SUBSET Days, order \in {"asc", "desc"} :
        \E f \in [S -> Scores],
           g \in [T -> IF order = "asc" THEN ReturnStates ELSE {"defined"}] :
            SweepStart(SentimentFrame("naive", Ordered(SentimentSeries(S, f, 10), order)),
                       StockFrame("naive", Ordered(StockSeries(T, g), order)),
                       AllLags, "caller")

\* the frames as analyze_headlines and get_stock_data produce them
InitPipeline ==
    \E S \in SUBSET Days, T \in SUBSET Days :
        \E f \in [S -> ArticleKinds], c \in [T -> Closes] :
          \E d \in {FailedDownload, Download(T, c)} :
            SweepStart(analyze_headlines(Articles(S, f)), get_stock_data(d),
                       <<IntLag(0), IntLag(1)>>, "pipeline")

Symbols == {"AAPL", "MSFT"}

\* the rows of one symbol: one article at 09:00 on each day of S, with the scores f
SymbolRows(sym, S, f) ==
    [k \in 1..Cardinality(S) |->
        [SentimentRow(At(Ascending(S)[k], 9), f[Ascending(S)[k]]) EXCEPT !.sym = sym]]

\* a frame indexed by (stock, date)
MultiIndexFrame(rows) == [SentimentFrame("naive", rows) EXCEPT !.index = "stock"]

\* the history of one ticker
TickerFrame(ticker, rows) ==
    [none |-> FALSE, tz |-> "naive", has_returns |-> TRUE, rows |-> rows, ticker |-> ticker]

\* a frame holding the rows of one symbol and then those of the other, against
\* the returns of either ticker on every day
InitMultiIndex ==
    \E S \in SUBSET Days, T \in SUBSET Days, first \in Symbols, ticker \in Symbols :
        \E f \in [S -> {Num(1), Num(2)}] :
            SweepStart(MultiIndexFrame(SymbolRows(first, S, f)
                                       \o SymbolRows(CHOOSE x \in Symbols : x # first, T,
                                                     [d \in T |-> Num(3)])),
                       TickerFrame(ticker, StockSeries(Days, [d \in Days |-> "defined"])),
                       AllLags, "caller")

Init == InitFixtures \/ InitSeries \/ InitPipeline \/ InitMultiIndex

Next == Sweep

Spec == Init /\ [][Next]_vars

(* ------------------------ calculate_correlation ------------------------ *)
\* the rows of the right frame with the key t, as merged rows
Matches(t, v, stk) ==
    LET Same(row) == row.t = t
        right == SelectSeq(stk.rows, Same)
    IN  [k \in 1..Len(right) |-> [t |-> t, sentiment |-> v, returns |-> right[k].ret]]

\* pd.merge(..., left_index=True, right_index=True, how='inner'): every pair
\* of rows with equal index labels, in the order of the left frame
RECURSIVE MergeInner(_, _, _)
MergeInner(sd, stk, j) ==
    IF j > Len(sd.rows) THEN <<>>
    ELSE Matches(sd.rows[j].t, sd.rows[j].val, stk) \o MergeInner(sd, stk, j + 1)

merged(sd, stk) == MergeInner(sd, stk, 1)

\* lines 83-96 raise: no frame, no 'Returns' column, a tz-naive index joined
\* with a tz-aware one, no sentiment column when the correlation is computed
CalculateRaises(sd, stk) ==
    \/ stk.none
    \/ ~stk.has_returns
    \/ stk.tz # sd.tz
    \/ Len(merged(sd, stk)) > 1 /\ ~sd.has_column

\* lines 92-97
CorrelationResult(sd, stk) ==
    IF Len(merged(sd, stk)) > 1
    THEN [state |-> "returned", evaluated |-> TRUE,
          x |-> Column(merged(sd, stk), "sentiment"),
          y |-> Column(merged(sd, stk), "returns"),
          r |-> Pearsonr(Column(merged(sd, stk), "sentiment"),
                         Column(merged(sd, stk), "returns")).r,
          p |-> Pearsonr(Column(merged(sd, stk), "sentiment"),
                         Column(merged(sd, stk), "returns")).p]
    ELSE [state |-> "returned", evaluated |-> FALSE, x |-> <<>>, y |-> <<>>,
          r |-> NaN, p |-> NaN]

\* calculate_correlation returns a pair
calculate_correlation ==
    /\ pc = "calculate"
    /\ ~CalculateRaises(sentiment_data, stock_data)
    /\ corr' = CorrelationResult(sentiment_data, stock_data)
    /\ outcome' = "returned"
    /\ pc' = "done"
    /\ UNCHANGED <<caller_frame, sentiment_data, stock_data, lags, results, merged_log, origin, df, stats>>

\* calculate_correlation has no handler: what lines 83-96 raise reaches the caller
calculate_correlation_raises ==
    /\ pc = "calculate"
    /\ CalculateRaises(sentiment_data, stock_data)
    /\ corr' = [state |-> "raised"]
    /\ outcome' = "raised"
    /\ pc' = "done"
    /\ UNCHANGED <<caller_frame, sentiment_data, stock_data, lags, results, merged_log, origin, df, stats>>

\* a sentiment frame of one time zone against the frame of get_stock_data
InitCorr ==
    \E S \in SUBSET Days, T \in SUBSET Days, h \in {0, 10}, tz \in {"naive", "NY"} :
      \E f \in [S -> Scores], c \in [T -> Closes] :
        /\ pc = "calculate"
        /\ sentiment_data = SentimentFrame(tz, SentimentSeries(S, f, h))
        /\ caller_frame = sentiment_data
        /\ stock_data \in {get_stock_data(FailedDownload), get_stock_data(Download(T, c))}
        /\ lags = <<>>
        /\ origin = "pipeline"
        /\ results = <<>>
        /\ merged_log = <<>>
        /\ outcome = "running"
        /\ corr = Idle
        /\ df = NoTable
        /\ stats = <<>>

NextCorr == calculate_correlation \/ calculate_correlation_raises

SpecCorr == InitCorr /\ [][NextCorr]_vars

(* --------------------------- market analysis --------------------------- *)
\* Series.value_counts(): the number of rows of every value, NaN left out
RECURSIVE ValueCounts(_)
ValueCounts(cells) ==
    IF cells = <<>> THEN <<>>
    ELSE LET rest == ValueCounts(Tail(cells))
             v == Head(cells)
         IN  IF IsNaN(v) THEN rest
             ELSE [x \in DOMAIN rest \cup {Val(v)} |->
                     (IF x \in DOMAIN rest THEN rest[x] ELSE 0)
                     + (IF x = Val(v) THEN 1 ELSE 0)]

\* the sum of the counts: the number of rows with a value
SumOfCounts(counts) ==
    LET RECURSIVE Sum(_)
        Sum(S) == IF S = {} THEN 0
                  ELSE LET x == CHOOSE x \in S : TRUE IN counts[x] + Sum(S \ {x})
    IN  Sum(DOMAIN counts)

\* len(counts): the number of entries of the value_counts Series
LenOfCounts(counts) == Cardinality(DOMAIN counts)

CellsOf(table, c) == [k \in 1..Len(table.rows) |-> table.rows[k][c]]

\* pd.to_datetime(df['date']) raises on a string that is no date
DateRaises(table) == \E k \in 1..Len(table.rows) : table.rows[k].date.kind = "bad"

\* df['date'] = pd.to_datetime(df['date']): the caller's table now holds timestamps
WithParsedDates(table) ==
    [table EXCEPT !.rows = [k \in 1..Len(table.rows) |->
                               [table.rows[k] EXCEPT !.date.kind = "ts"]]]

RowsWith(table, c, v) == {k \in 1..Len(table.rows) : table.rows[k][c] = Num(v)}

\* groupby([c, date]).size() then groupby(c).mean(): for every value of
\* column c its rows divided by its days, kept as a fraction
MeanPerDay(table, c) ==
    [v \in DOMAIN ValueCounts(CellsOf(table, c)) |->
        [num |-> Cardinality(RowsWith(table, c, v)),
         den |-> Cardinality({table.rows[k].date.day : k \in RowsWith(table, c, v)})]]

\* groupby(c)[other].agg(list): the cells of column other, for every value of c
ListsBy(table, c, other) ==
    [v \in DOMAIN ValueCounts(CellsOf(table, c)) |->
        LET Mine(row) == row[c] = Num(v)
            mine == SelectSeq(table.rows, Mine)
        IN  [k \in 1..Len(mine) |-> mine[k][other]]]

\* Counter(stocks).most_common(5), with at most 5 symbols: every symbol and its count
TopStocks(table) ==
    [v \in DOMAIN ListsBy(table, "publisher", "stock") |->
        ValueCounts(ListsBy(table, "publisher", "stock")[v])]

\* len(set(publishers)): NaN is a member of the set like any publisher
PublisherDiversity(table) ==
    [v \in DOMAIN ListsBy(table, "stock", "publisher") |->
        Cardinality(Range(ListsBy(table, "stock", "publisher")[v]))]

\* lines 33-38
PublisherStats(table) ==
    [fn |-> "publishers",
     total |-> LenOfCounts(ValueCounts(CellsOf(table, "publisher"))),
     counts |-> ValueCounts(CellsOf(table, "publisher")),
     per_day |-> MeanPerDay(table, "publisher"),
     detail |-> TopStocks(table)]

\* lines 65-70
StockStats(table) ==
    [fn |-> "stocks",
     total |-> LenOfCounts(ValueCounts(CellsOf(table, "stock"))),
     counts |-> ValueCounts(CellsOf(table, "stock")),
     per_day |-> MeanPerDay(table, "stock"),
     detail |-> PublisherDiversity(table)]

\* the caller runs each function once, in either order
NotCalled(fn) == pc = "market" /\ \A k \in 1..Len(stats) : stats[k].fn # fn

analyze_publishers ==
    /\ NotCalled("publishers")
    /\ ~DateRaises(df)
    /\ df' = WithParsedDates(df)
    /\ stats' = Append(stats, PublisherStats(WithParsedDates(df)))
    /\ outcome' = "returned"
    /\ UNCHANGED <<caller_frame, pc, sentiment_data, stock_data, lags, results, merged_log, origin, corr>>

analyze_stocks ==
    /\ NotCalled("stocks")
    /\ ~DateRaises(df)
    /\ df' = WithParsedDates(df)
    /\ stats' = Append(stats, StockStats(WithParsedDates(df)))
    /\ outcome' = "returned"
    /\ UNCHANGED <<caller_frame, pc, sentiment_data, stock_data, lags, results, merged_log, origin, corr>>

\* line 22 or line 54 raises: nothing is returned, the table is as it was
analyze_raises ==
    /\ NotCalled("publishers") \/ NotCalled("stocks")
    /\ DateRaises(df)
    /\ outcome' = "raised"
    /\ pc' = "done"
    /\ UNCHANGED <<caller_frame, df, stats, sentiment_data, stock_data, lags, results, merged_log,
                   origin, corr>>

Publishers == {NaN, Num("Reuters"), Num("Bloomberg")}

Stocks == {Num("TSLA"), Num("AAPL")}

DateCells(kinds) == {[day |-> d, kind |-> k] : d \in 1..2, k \in kinds}

TableRows(kinds) == [publisher : Publishers, stock : Stocks, date : DateCells(kinds)]

\* a table whose first date is a string that is no date
WithBadDate(rows) == IF Len(rows) = 0 THEN rows ELSE [rows EXCEPT ![1].date.kind = "bad"]

InitMarket ==
    \E n \in 0..MaxRows :
      \E r \in [1..n -> TableRows({"str"})] :
        /\ pc = "market"
        /\ df \in {[rows |-> r], [rows |-> WithBadDate(r)]}
        /\ stats = <<>>
        /\ outcome = "running"
        /\ sentiment_data = SentimentFrame("naive", <<>>)
        /\ caller_frame = sentiment_data
        /\ stock_data = NoFrame
        /\ lags = <<>>
        /\ origin = "caller"
        /\ results = <<>>
        /\ merged_log = <<>>
        /\ corr = Idle

NextMarket == analyze_publishers \/ analyze_stocks \/ analyze_raises

SpecMarket == InitMarket /\ [][NextMarket]_vars

(* ------------------------------- claims -------------------------------- *)
Processed == 1..Len(merged_log)

\* the lags of a sweep that has returned
Finished == IF pc = "done" THEN Processed ELSE {}

SomeLagFailed == \E k \in Processed : merged_log[k].failed

SomeLagEvaluated == \E k \in Processed : ~merged_log[k].failed

\* C1: the table analyze_sentiment_impact returns has exactly one row per
\* requested lag, and the rows carry the requested lags in the requested
\* order, whether or not a step failed.
C1_OneRowPerLag ==
    outcome = "returned" =>
        /\ Len(results) = Len(lags)
        /\ \A k \in 1..Len(lags) : results[k].lag = lags[k]

\* C1 witness: a returned sweep over two different lags, one failed, one evaluated.
C1_Witness ==
    /\ outcome = "returned"
    /\ Len(lags) = 2
    /\ lags[1] # lags[2]
    /\ SomeLagFailed
    /\ SomeLagEvaluated

\* C2: a lag whose processing raises gets the row (NaN, NaN, 0); every other
\* lag, before or after it, has the row its own evaluation gives, and the
\* loop reaches the end of the list.
C2_FailureIsolated ==
    /\ \A k \in Processed :
          /\ merged_log[k].failed <=> LagRaises(stock_data, sentiment_data, lags[k])
          /\ merged_log[k].failed =>
                results[k] = [lag |-> lags[k], correlation |-> NaN,
                              p_value |-> NaN, n_obs |-> 0]
          /\ ~merged_log[k].failed =>
                results[k] = ResultRow(lags[k],
                                       merged_data(stock_data, sentiment_data, lags[k].v))
    /\ (pc \in {"return", "done"} /\ merged_log # <<>>) => Len(merged_log) = Len(lags)

\* C2 witness: the first lag failed, the second was evaluated on 2 rows or more.
C2_Witness ==
    /\ pc = "done"
    /\ Len(lags) = 2
    /\ Len(merged_log) = 2
    /\ merged_log[1].failed
    /\ ~merged_log[2].failed
    /\ results[2].n_obs >= 2
    /\ ~IsNaN(results[2].correlation)

\* C3: every row has n_obs >= 0, and a row with n_obs < 2 has correlation
\* and p_value NaN.
C3_RowInvariant ==
    \A k \in 1..Len(results) :
        /\ results[k].n_obs >= 0
        /\ results[k].n_obs < 2 =>
              IsNaN(results[k].correlation) /\ IsNaN(results[k].p_value)

\* C3 witness: a returned table with a one-observation row and a failure row.
C3_Witness ==
    /\ outcome = "returned"
    /\ \E k \in 1..Len(results) : results[k].n_obs = 1
    /\ SomeLagFailed

\* the set-up of lines 120-149 raised: no lag was processed
StructuralError == SetupRaises(stock_data, sentiment_data)

\* C4 as stated: a structural error leaves the sweep as an error, not as rows.
C4_StructuralErrorPropagates ==
    (pc = "done" /\ StructuralError) => outcome = "raised"

\* C4 amended: a structural error is caught by the outer handler; the call
\* returns one row (lag, NaN, NaN, 0) per requested lag.
C4_StructuralErrorBecomesRows ==
    (pc = "done" /\ StructuralError) =>
        /\ outcome = "returned"
        /\ Len(results) = Len(lags)
        /\ \A k \in 1..Len(lags) :
              results[k] = [lag |-> lags[k], correlation |-> NaN,
                            p_value |-> NaN, n_obs |-> 0]

\* C4 witness: an unparseable index entry, two lags requested.
C4_Witness ==
    /\ pc = "done"
    /\ StructuralError
    /\ ~stock_data.none
    /\ Len(lags) = 2

\* the sentiment column, the Returns column and an integer lag: lag k has two
\* series to align
SeriesExist(k) ==
    lags[k].int /\ sentiment_data.has_column /\ stock_data.has_returns

UniqueIndexes ==
    ~HasDup(IndexOf(sentiment_data.rows)) /\ ~HasDup(IndexOf(stock_data.rows))

\* positions of the return series whose timestamp, L positions on, has a return
HasLaterReturn(i, L) ==
    i + L <= Len(stock_data.rows) /\ ~IsNaN(stock_data.rows[i + L].ret)

\* the timestamps in both series with a sentiment and a lag-shifted return
CommonTimes(L) ==
    IF sentiment_data.tz # stock_data.tz THEN {}
    ELSE {sentiment_data.rows[j].t :
            j \in {j \in 1..Len(sentiment_data.rows) :
                      /\ ~IsNaN(sentiment_data.rows[j].val)
                      /\ \E i \in 1..Len(stock_data.rows) :
                            /\ stock_data.rows[i].t = sentiment_data.rows[j].t
                            /\ HasLaterReturn(i, L)}}

TimesOf(rows) == [m \in 1..Len(rows) |-> rows[m].t]

IsCommon(L, t) == t \in CommonTimes(L)

\* the common timestamps in the order of the sentiment index
InIndexOrder(L) ==
    LET Keep(t) == IsCommon(L, t) IN SelectSeq(IndexOf(sentiment_data.rows), Keep)

SameIndexes == IndexOf(sentiment_data.rows) = IndexOf(stock_data.rows)

\* C5 as stated: with unique normalized timestamps, the rows used for a lag
\* are exactly the common timestamps with both values present, in ascending
\* order, and n_obs is their number (0 when nothing is common).
C5_AlignedRowsAscending ==
    \A k \in Finished :
        (SeriesExist(k) /\ UniqueIndexes) =>
            /\ TimesOf(merged_log[k].rows) = Ascending(CommonTimes(lags[k].v))
            /\ results[k].n_obs = Cardinality(CommonTimes(lags[k].v))

\* C5 amended: as stated, but the rows are in ascending order only when the
\* two normalized indexes differ; two identical indexes keep their own order.
C5_AlignedRows ==
    \A k \in Finished :
        (SeriesExist(k) /\ UniqueIndexes) =>
            /\ Range(TimesOf(merged_log[k].rows)) = CommonTimes(lags[k].v)
            /\ TimesOf(merged_log[k].rows) =
                  IF SameIndexes THEN InIndexOrder(lags[k].v)
                  ELSE Ascending(CommonTimes(lags[k].v))
            /\ results[k].n_obs = Cardinality(CommonTimes(lags[k].v))

\* C5 witness: two different unique indexes, 2 rows aligned, a timestamp of
\* each series dropped.
C5_Witness ==
    \E k \in Processed :
        /\ SeriesExist(k) /\ UniqueIndexes /\ ~SameIndexes
        /\ results[k].n_obs = 2
        /\ Len(sentiment_data.rows) > 2
        /\ Len(stock_data.rows) > 2

\* C6: for an integer lag L >= 0 the sentiment at t is paired with the return
\* L positions after t in the return series; the last L timestamps of the
\* return series give no pair; series that share all their timestamps and
\* have every value defined give n_obs = length - L (4 days: 4, then 3).
C6_LagPairsLaterReturn ==
    \A k \in Finished :
        (SeriesExist(k) /\ UniqueIndexes /\ ~merged_log[k].failed) =>
            LET L == lags[k].v
                rows == merged_log[k].rows
                n == Len(stock_data.rows)
            IN  /\ \A m \in 1..Len(rows) :
                      /\ \E i \in 1..n :
                            /\ stock_data.rows[i].t = rows[m].t
                            /\ i + L <= n
                            /\ rows[m].returns = stock_data.rows[i + L].ret
                      /\ \E j \in 1..Len(sentiment_data.rows) :
                            /\ sentiment_data.rows[j].t = rows[m].t
                            /\ rows[m].sentiment = sentiment_data.rows[j].val
                /\ \A i \in 1..n :
                      i + L > n => stock_data.rows[i].t \notin Range(TimesOf(rows))
                /\ ( /\ SameIndexes
                     /\ \A i \in 1..n : ~IsNaN(stock_data.rows[i].ret)
                     /\ \A j \in 1..n : ~IsNaN(sentiment_data.rows[j].val)
                     /\ L <= n )
                   => results[k].n_obs = n - L

\* C6 witness: 4 common days, lags 0 and 1, n_obs 4 and 3.
C6_Witness ==
    /\ pc = "done"
    /\ Len(stock_data.rows) = 4
    /\ UniqueIndexes /\ SameIndexes
    /\ lags = <<IntLag(0), IntLag(1)>>
    /\ results[1].n_obs = 4
    /\ results[2].n_obs = 3

SentimentAt(t) ==
    sentiment_data.rows[CHOOSE j \in 1..Len(sentiment_data.rows) :
                            sentiment_data.rows[j].t = t].val

ConstantSentiment(L) ==
    \A t, u \in CommonTimes(L) : SentimentAt(t) = SentimentAt(u)

\* C7: at least 2 aligned rows whose sentiment values are all equal give a
\* row with correlation NaN and n_obs the number of aligned rows: the lag is
\* not handled as a failure.
C7_ConstantSentimentRow ==
    \A k \in Finished :
        ( /\ SeriesExist(k) /\ UniqueIndexes
          /\ Cardinality(CommonTimes(lags[k].v)) >= 2
          /\ ConstantSentiment(lags[k].v) )
        => /\ ~merged_log[k].failed
           /\ IsNaN(results[k].correlation)
           /\ results[k].n_obs = Cardinality(CommonTimes(lags[k].v))

\* C7 witness: three aligned rows of one sentiment value, returns that vary.
C7_Witness ==
    \E k \in Processed :
        /\ SeriesExist(k) /\ UniqueIndexes
        /\ ConstantSentiment(lags[k].v)
        /\ results[k].n_obs = 3
        /\ IsNaN(results[k].correlation)
        /\ ~IsConstant(Column(merged_log[k].rows, "returns"))

\* C8: when the loop starts on frames made by analyze_headlines and
\* get_stock_data, a sentiment row and a return row of the same calendar day
\* have equal join keys: the same time zone and the same midnight.
C8_JoinKeysShareTimeZone ==
    (origin = "pipeline" /\ pc = "loop") =>
        \A j \in 1..Len(sentiment_data.rows), i \in 1..Len(stock_data.rows) :
            DayOf(sentiment_data.rows[j].t) = DayOf(stock_data.rows[i].t) =>
                /\ sentiment_data.tz = stock_data.tz
                /\ sentiment_data.rows[j].t = stock_data.rows[i].t

\* the merged rows that have a sentiment and a return
ValidRows == DropNa(merged(sentiment_data, stock_data))

\* C9: for two frames that can be merged, calculate_correlation evaluates
\* pearsonr exactly when at least 2 timestamps are in both frames with a
\* sentiment and a return, over those rows only; otherwise it returns
\* (NaN, NaN).
C9_PearsonOnValidRowsOnly ==
    (pc = "done" /\ corr.state = "returned") =>
        /\ Len(ValidRows) >= 2 =>
              /\ corr.evaluated
              /\ corr.x = Column(ValidRows, "sentiment")
              /\ corr.y = Column(ValidRows, "returns")
        /\ Len(ValidRows) < 2 =>
              /\ ~corr.evaluated
              /\ IsNaN(corr.r) /\ IsNaN(corr.p)

\* the values of a column of the table, NaN left out
DistinctIn(c) ==
    {Val(df.rows[k][c]) : k \in {k \in 1..Len(df.rows) : ~IsNaN(df.rows[k][c])}}

ColumnOf(st) == IF st.fn = "publishers" THEN "publisher" ELSE "stock"

\* C10: every dictionary returned by analyze_publishers or analyze_stocks,
\* alone or after the other function ran on the same table, has a total equal
\* to the number of distinct values of its column and counts holding, for
\* each distinct value and nothing else, the number of its rows.
C10_CountsMatchTable ==
    \A k \in 1..Len(stats) :
        /\ stats[k].total = Cardinality(DistinctIn(ColumnOf(stats[k])))
        /\ DOMAIN stats[k].counts = DistinctIn(ColumnOf(stats[k]))
        /\ \A v \in DistinctIn(ColumnOf(stats[k])) :
              stats[k].counts[v] =
                  Cardinality({i \in 1..Len(df.rows) : df.rows[i][ColumnOf(stats[k])] = Num(v)})

\* C10 witness: both functions ran on a table of 3 rows and 2 publishers.
C10_Witness ==
    /\ Len(stats) = 2
    /\ stats[1].fn = "publishers" /\ stats[2].fn = "stocks"
    /\ Len(df.rows) = 3
    /\ stats[1].total = 2
    /\ stats[2].total = 2
    /\ \A i \in 1..3 : ~IsNaN(df.rows[i].publisher)

\* the caller's frame has a level named 'stock' and at least one row
HasStockLevel == caller_frame.index = "stock" /\ Len(caller_frame.rows) > 0

\* the symbol of the first row of the caller's frame
FirstSymbol == caller_frame.rows[1].sym

\* the positions of the caller's frame that hold the first symbol
FirstSymbolRows == {j \in 1..Len(caller_frame.rows) : caller_frame.rows[j].sym = FirstSymbol}

DateOfRow(j) == NormalizeTs(caller_frame.rows[j].t)

UniqueFirstSymbolDates ==
    \A i, j \in FirstSymbolRows : DateOfRow(i) = DateOfRow(j) => i = j

\* the dates of the first symbol's rows that have a score and a return L positions on
FirstSymbolTimes(L) ==
    IF caller_frame.tz # stock_data.tz THEN {}
    ELSE {DateOfRow(j) :
            j \in {j \in FirstSymbolRows :
                      /\ ~IsNaN(caller_frame.rows[j].val)
                      /\ \E i \in 1..Len(stock_data.rows) :
                            /\ stock_data.rows[i].t = DateOfRow(j)
                            /\ HasLaterReturn(i, L)}}

====
